---- MODULE Spec2Model ----
(***************************************************************************)
(* Model of docs/js/editor.js (class P5CodeEditor) and docs/js/theme.js.   *)
(*                                                                         *)
(* A code text is a sequence of lexemes.  "\r" and "\n" are the line-break *)
(* characters; the other lexemes stand for one statement of a sketch:      *)
(*   "log"   console.log('x', 'y') at top level                            *)
(*   "throw" a statement that throws at top level                          *)
(*   "cb"    function setup() { <throws> }   (a p5 callback that throws)   *)
(*   "bad"   text that does not parse                                      *)
(***************************************************************************)
EXTENDS Integers, Sequences, FiniteSets, TLC

(* ------------------------------ bounds --------------------------------- *)

\* messages posted to the page and not yet handled by the listener
MaxQueue == 2

\* length of a list passed to setExamples
MaxExamples == 2

\* clicks on the theme toggle in one page life
MaxClicks == 4

\* entries in the message log beyond which other windows stop posting
MaxLog == 2

\* clipboard writes and confirmation timers pending at one time
MaxCopies == 2

(* ------------------------------ inputs --------------------------------- *)

\* code texts handed to setCode, typed into the editor, or given as options
CodeTexts ==
    { <<>>,
      <<"cb">>,
      <<"bad">>,
      <<"log", "\r", "\n", "throw">> }

\* the entries example lists are built from
ExamplePool ==
    { [name |-> "A", code |-> <<"cb">>],
      [name |-> "B", code |-> <<"log", "\r", "\n", "throw">>] }

ExampleLists ==
    UNION { [1..n -> ExamplePool] : n \in 0..MaxExamples }

\* indices a caller may pass to loadExample (one past the longest list too)
Indices == 0..MaxExamples

\* what the reader types on a page with two instances
TwoTexts == { <<"cb">>, <<"log", "\r", "\n", "throw">> }

VARIABLES
    widget,      \* the fields of one P5CodeEditor instance and its DOM
    other,       \* a second P5CodeEditor instance on the same page, if any
    queue,       \* message events posted to the page window, FIFO
    lastOp,      \* history: the operation that produced this state
    setArg,      \* history: the text passed to the most recent setCode
    edited,      \* history: the user edited the buffer since that setCode
    emitted,     \* history: messages the preview emitted since the last
                 \*          clearConsole or runCode
    lastList,    \* history: the list passed to the most recent setExamples
    dataTheme,   \* documentElement's data-theme attribute
    storedTheme, \* localStorage item 'theme'
    icon,        \* themeToggle.textContent
    hasToggle,   \* the page has an element with id themeToggle
    loaded,      \* DOMContentLoaded has fired
    clicks,      \* history: number of clicks on the toggle
    before       \* history: the theme state before each of the last two clicks

vars == << widget, other, queue, lastOp, setArg, edited, emitted, lastList,
           dataTheme, storedTheme, icon, hasToggle, loaded, clicks, before >>

widgetVars == << widget, other, queue, lastOp, setArg, edited, emitted, lastList >>

themeVars == << dataTheme, storedTheme, icon, hasToggle, loaded, clicks, before >>

(* ------------------------- the embedded editor ------------------------- *)

\* CodeMirror's Doc.setValue splits the text into lines at "\r\n", "\r" or
\* "\n" and Doc.getValue joins the lines with "\n" (no lineSeparator option
\* is passed to fromTextArea), so the value held for a text is that text
\* with every line break turned into "\n".
RECURSIVE editorSetValue(_)
editorSetValue(code) ==
    IF code = <<>> THEN <<>>
    ELSE IF Head(code) = "\r"
         THEN IF Len(code) > 1 /\ code[2] = "\n"
              THEN <<"\n">> \o editorSetValue(SubSeq(code, 3, Len(code)))
              ELSE <<"\n">> \o editorSetValue(Tail(code))
         ELSE <<Head(code)>> \o editorSetValue(Tail(code))

\* setCode that remembers the text but never hands it to the editor
setCodeKeepsBuffer(w, code) ==
    [w EXCEPT !.originalCode = code]

setCode(w, code) ==
    [w EXCEPT !.originalCode = code,
              !.buffer = editorSetValue(code)]

getCode(w) == w.buffer

(* --------------------------- console relay ----------------------------- *)

Placeholder == [kind |-> "console-placeholder", method |-> "", text |-> <<"...">>]

\* Array.prototype.join(' ')
RECURSIVE join(_)
join(args) ==
    IF args = <<>> THEN <<>>
    ELSE IF Len(args) = 1 THEN <<args[1]>>
    ELSE <<args[1], " ">> \o join(Tail(args))

\* a value received as args: an array of strings, or a value of another kind
\* ("undefined" when the field is missing, "string" for a plain string)
Arr(items) == [kind |-> "array", items |-> items]
NotArr(kind) == [kind |-> kind, items |-> <<>>]

\* addConsoleMessage that records the entry before looking for the panel
addConsoleMessageLogsFirst(w, method, args) ==
    IF ~w.showConsole
    THEN [w EXCEPT !.consoleMessages = Append(@, [method |-> method, args |-> args])]
    ELSE IF args.kind # "array" THEN [w EXCEPT !.threw = TRUE]
    ELSE [w EXCEPT
            !.consoleMessagesEl =
                Append(@, [kind |-> "console-message", method |-> method,
                           text |-> join(args.items)]),
            !.consoleMessages = Append(@, [method |-> method, args |-> args])]

\* args.join is not a function (or args is undefined) unless args is an
\* array: the TypeError leaves the handler before anything is appended
addConsoleMessage(w, method, args) ==
    IF ~w.showConsole THEN w
    ELSE IF args.kind # "array" THEN [w EXCEPT !.threw = TRUE]
    ELSE [w EXCEPT
            !.consoleMessagesEl =
                Append(@, [kind |-> "console-message", method |-> method,
                           text |-> join(args.items)]),
            !.consoleMessages = Append(@, [method |-> method, args |-> args])]

\* clearConsole that empties the panel but keeps the log
clearConsolePanelOnly(w) ==
    [w EXCEPT !.consoleMessagesEl = <<>>]

clearConsole(w) ==
    [w EXCEPT !.consoleMessagesEl = <<>>,
              !.consoleMessages = <<>>]

(* ----------------------- preview document generator -------------------- *)

HtmlHead == <<"<shim>", "try {">>
HtmlTail == <<"} catch(err) { console.error; function setup }">>

generatePreviewHTML(code) == HtmlHead \o code \o HtmlTail

\* the user code embedded in a generated document
UserCode(html) == SubSeq(html, Len(HtmlHead) + 1, Len(html) - Len(HtmlTail))

ConsoleMsg(method, args) ==
    [type |-> "console", method |-> method, args |-> Arr(args)]

LogMsg == ConsoleMsg("log", <<"x", "y">>)
RuntimeErrorMsg == ConsoleMsg("error", <<"Runtime Error: e">>)
OnErrorMsg == ConsoleMsg("error", <<"Error: e (line n)">>)

Parses(code) == \A i \in 1..Len(code) : code[i] # "bad"

\* position of the first top-level throw, 0 if there is none
FirstThrow(code) ==
    IF \E i \in 1..Len(code) : code[i] = "throw"
    THEN CHOOSE i \in 1..Len(code) :
            /\ code[i] = "throw"
            /\ \A j \in 1..(i - 1) : code[j] # "throw"
    ELSE 0

RECURSIVE LogsOf(_)
LogsOf(code) ==
    IF code = <<>> THEN <<>>
    ELSE (IF Head(code) = "log" THEN <<LogMsg>> ELSE <<>>) \o LogsOf(Tail(code))

DefinesThrowingSetup(code) == \E i \in 1..Len(code) : code[i] = "cb"

\* what the generated document posts to its parent, in order
DocMessages(html) ==
    LET code == UserCode(html) IN
    IF html = <<>> THEN <<>>
    ELSE IF ~Parses(code) THEN <<OnErrorMsg>>
    ELSE IF FirstThrow(code) # 0
         THEN LogsOf(SubSeq(code, 1, FirstThrow(code) - 1)) \o <<RuntimeErrorMsg>>
    ELSE LogsOf(code) \o (IF DefinesThrowingSetup(code) THEN <<OnErrorMsg>> ELSE <<>>)

\* what the frame shows once the document has run
DocView(html) ==
    LET code == UserCode(html) IN
    IF html = <<>> THEN "empty"
    ELSE IF ~Parses(code) THEN "blank"
    ELSE IF FirstThrow(code) # 0 THEN "fallback"
    ELSE IF DefinesThrowingSetup(code) THEN "blank"
    ELSE "sketch"

\* the user code of the document throws or does not parse
Throws(code) ==
    ~Parses(code) \/ FirstThrow(code) # 0 \/ DefinesThrowingSetup(code)

\* runCode that loads the document without clearing the console first
runCodeNoClear(w) ==
    LET code == getCode(w)
        html == generatePreviewHTML(code)
    IN [w EXCEPT !.previewSrc = html,
                 !.frameOut = DocMessages(html),
                 !.frameView = "loading",
                 !.ran = TRUE]

runCode(w) ==
    LET code == getCode(w)
        c == clearConsole(w)
        html == generatePreviewHTML(code)
    IN [c EXCEPT !.previewSrc = html,
                 !.frameOut = DocMessages(html),
                 !.frameView = "loading",
                 !.ran = TRUE]

resetCode(w) ==
    IF w.originalCode # <<>>
    THEN runCode([w EXCEPT !.buffer = editorSetValue(w.originalCode)])
    ELSE w

(* --------------------------- example switcher -------------------------- *)

\* index is 0-based as in the source; sequences here are 1-based
HasExample(w, index) ==
    w.examples.defined /\ index + 1 \in 1..Len(w.examples.list)

\* loadExample that marks the selected tab without unmarking the others
loadExampleAddsActive(w, index) ==
    IF ~w.examples.defined THEN [w EXCEPT !.threw = TRUE]
    ELSE IF ~HasExample(w, index) THEN w
    ELSE LET t == [w EXCEPT !.tabs =
                        [i \in 1..Len(w.tabs) |->
                            [w.tabs[i] EXCEPT !.active = (@ \/ i = index + 1)]]]
         IN runCode(setCode(t, w.examples.list[index + 1].code))

\* loadExample that updates the tabs before it looks the example up
loadExampleTogglesFirst(w, index) ==
    IF ~w.examples.defined THEN [w EXCEPT !.threw = TRUE]
    ELSE LET t == [w EXCEPT !.tabs =
                        [i \in 1..Len(w.tabs) |->
                            [w.tabs[i] EXCEPT !.active = (i = index + 1)]]]
         IN IF ~HasExample(w, index) THEN t
            ELSE runCode(setCode(t, w.examples.list[index + 1].code))

\* this.examples is undefined until setExamples is given a non-empty list:
\* indexing it is a TypeError that leaves the method at its first line
loadExample(w, index) ==
    IF ~w.examples.defined THEN [w EXCEPT !.threw = TRUE]
    ELSE IF ~HasExample(w, index) THEN w
    ELSE LET t == [w EXCEPT !.tabs =
                        [i \in 1..Len(w.tabs) |->
                            [w.tabs[i] EXCEPT !.active = (i = index + 1)]]]
         IN runCode(setCode(t, w.examples.list[index + 1].code))

setExamples(w, examples) ==
    IF examples = <<>>
    THEN [w EXCEPT !.tabsDisplay = "none"]
    ELSE LET t == [w EXCEPT
                    !.tabsDisplay = "flex",
                    !.examples = [defined |-> TRUE, list |-> examples],
                    !.tabs = [i \in 1..Len(examples) |->
                                [name |-> examples[i].name, active |-> (i = 1)]]]
         IN loadExample(t, 0)

(* ------------------------------ construction --------------------------- *)

\* the copy button's markup and the confirmation that replaces it
CopyLabel == "Kopyala"
CopiedLabel == "Copied!"

createStructure(options) ==
    [ showConsole       |-> options.showConsole,
      buffer            |-> <<>>,
      originalCode      |-> <<>>,
      consoleMessages   |-> <<>>,
      consoleMessagesEl |-> IF options.showConsole THEN <<Placeholder>> ELSE <<>>,
      previewSrc        |-> <<>>,
      frameOut          |-> <<>>,
      frameView         |-> "empty",
      examples          |-> [defined |-> FALSE, list |-> <<>>],
      tabs              |-> <<>>,
      tabsDisplay       |-> "none",
      copyBtn           |-> CopyLabel,
      copyPending       |-> 0,
      copyTimers        |-> <<>>,
      container         |-> "present",
      structure         |-> "built",
      listening         |-> FALSE,
      errorLogged       |-> FALSE,
      ran               |-> FALSE,
      threw             |-> FALSE ]

\* the listener on the page window (the button handlers are the actions)
bindEvents(w) == [w EXCEPT !.listening = TRUE]

init(options) ==
    LET w == bindEvents(createStructure(options)) IN
    IF options.autoRun /\ options.initialCode # <<>>
    THEN runCode(setCode(w, options.initialCode))
    ELSE w

\* the instance left by a constructor that found no container: no options,
\* no structure, no editor, no listener
Unattached ==
    [ createStructure([showConsole |-> FALSE]) EXCEPT
        !.container = "missing",
        !.structure = "none",
        !.errorLogged = TRUE ]

\* a constructor that logs the error and goes on
constructorNoReturn(found, options) ==
    [init(options) EXCEPT !.container = IF found THEN "present" ELSE "missing",
                          !.errorLogged = ~found]

constructor(found, options) ==
    IF ~found THEN Unattached ELSE init(options)

\* editor.toTextArea() and container.innerHTML = '': the structure, with the
\* preview frame and its document, leaves the page; the instance keeps its
\* references to the detached elements and its listener
destroy(w) ==
    [w EXCEPT !.structure = "cleared",
              !.frameOut = <<>>,
              !.frameView = "removed"]

\* copyCode starts a clipboard write; its outcome arrives later
copyCode(w) ==
    [w EXCEPT !.copyPending = @ + 1]

\* the write succeeded: the label shown now is kept for the timer, the
\* confirmation is shown and a 2000 ms timer is started
copyResolved(w) ==
    [w EXCEPT !.copyPending = @ - 1,
              !.copyTimers = Append(@, w.copyBtn),
              !.copyBtn = CopiedLabel]

\* the write failed: console.error only
copyRejected(w) ==
    [w EXCEPT !.copyPending = @ - 1,
              !.errorLogged = TRUE]

\* the oldest timer fires (equal delays fire in the order they were set)
copyTimeout(w) ==
    [w EXCEPT !.copyBtn = Head(w.copyTimers),
              !.copyTimers = Tail(@)]

\* no second instance on the page
NoWidget ==
    [ createStructure([showConsole |-> FALSE]) EXCEPT
        !.container = "none",
        !.structure = "none" ]

Options ==
    [ showConsole : BOOLEAN, autoRun : BOOLEAN, initialCode : {<<>>, <<"cb">>} ]

NoText == [set |-> FALSE, text |-> <<>>]
NoList == [set |-> FALSE, list |-> <<>>]

\* history: the operation applied last, the index it was given, and whether
\* the message log held an entry when it started
Op(name, index) ==
    [op |-> name, index |-> index, hadLog |-> widget.consoleMessages # <<>>]

\* the state an operation starts from: no run performed by it yet
Fresh == [widget EXCEPT !.ran = FALSE, !.threw = FALSE]

(* ------------------------------ theme toggle --------------------------- *)

\* the icon the page markup gives the toggle
HtmlIcon == "moon"

Theme == [dataTheme |-> dataTheme, storedTheme |-> storedTheme, icon |-> icon]

\* the attribute the page gives the document from the persisted choice,
\* before DOMContentLoaded ("read at page load")
appliedTheme(stored) ==
    IF stored = "light" THEN "light" ELSE "none"

\* a handler that leaves the markup's icon alone
initialIconKeepsMarkup(t) == t

\* the DOMContentLoaded handler's initial icon
initialIcon(t) ==
    IF t.dataTheme = "light" THEN [t EXCEPT !.icon = "sun"] ELSE t

\* a click handler that forgets to persist the dark choice
toggleThemeDarkNotStored(t) ==
    IF t.dataTheme = "light"
    THEN [dataTheme |-> "none", storedTheme |-> t.storedTheme, icon |-> "moon"]
    ELSE [dataTheme |-> "light", storedTheme |-> "light", icon |-> "sun"]

\* a click handler that forgets the icon when leaving the light theme
toggleThemeKeepsIcon(t) ==
    IF t.dataTheme = "light"
    THEN [dataTheme |-> "none", storedTheme |-> "dark", icon |-> t.icon]
    ELSE [dataTheme |-> "light", storedTheme |-> "light", icon |-> "sun"]

\* the click handler
toggleTheme(t) ==
    IF t.dataTheme = "light"
    THEN [dataTheme |-> "none", storedTheme |-> "dark", icon |-> "moon"]
    ELSE [dataTheme |-> "light", storedTheme |-> "light", icon |-> "sun"]

(* -------------------------------- actions ------------------------------ *)

SetCode(t) ==
    /\ widget' = setCode(Fresh, t)
    /\ lastOp' = Op("setCode", 0)
    /\ setArg' = [set |-> TRUE, text |-> t]
    /\ edited' = FALSE
    /\ UNCHANGED << other, queue, emitted, lastList, themeVars >>

\* the user types or pastes in the editor
Edit(t) ==
    /\ editorSetValue(t) # widget.buffer
    /\ widget' = [Fresh EXCEPT !.buffer = editorSetValue(t)]
    /\ lastOp' = Op("edit", 0)
    /\ edited' = TRUE
    /\ UNCHANGED << other, queue, setArg, emitted, lastList, themeVars >>

\* run button, Ctrl-Enter, Ctrl-S
RunCode ==
    /\ widget' = runCode(Fresh)
    /\ lastOp' = Op("runCode", 0)
    /\ emitted' = <<>>
    /\ UNCHANGED << other, queue, setArg, edited, lastList, themeVars >>

ResetCode ==
    /\ widget' = resetCode(Fresh)
    /\ lastOp' = Op("resetCode", 0)
    /\ emitted' = IF widget'.ran THEN <<>> ELSE emitted
    /\ UNCHANGED << other, queue, setArg, edited, lastList, themeVars >>

ClearConsole ==
    /\ widget' = clearConsole(Fresh)
    /\ lastOp' = Op("clearConsole", 0)
    /\ emitted' = <<>>
    /\ UNCHANGED << other, queue, setArg, edited, lastList, themeVars >>

SetExamples(list) ==
    /\ widget' = setExamples(Fresh, list)
    /\ lastOp' = Op("setExamples", 0)
    /\ lastList' = [set |-> TRUE, list |-> list]
    /\ IF list # <<>>
       THEN /\ setArg' = [set |-> TRUE, text |-> list[1].code]
            /\ edited' = FALSE
            /\ emitted' = <<>>
       ELSE UNCHANGED << setArg, edited, emitted >>
    /\ UNCHANGED << other, queue, themeVars >>

LoadExample(index) ==
    /\ widget' = loadExample(Fresh, index)
    /\ lastOp' = Op("loadExample", index)
    /\ IF HasExample(widget, index)
       THEN /\ setArg' = [set |-> TRUE, text |-> widget.examples.list[index + 1].code]
            /\ edited' = FALSE
            /\ emitted' = <<>>
       ELSE UNCHANGED << setArg, edited, emitted >>
    /\ UNCHANGED << other, queue, lastList, themeVars >>

\* a message event: the window that posted it and the data it carries
Event(source, data) == [source |-> source, data |-> data]

\* the preview document makes its next console call
FrameEmit ==
    /\ widget.frameOut # <<>>
    /\ Len(queue) < MaxQueue
    /\ queue' = Append(queue, Event("A", Head(widget.frameOut)))
    /\ emitted' = Append(emitted, Head(widget.frameOut))
    /\ widget' = [Fresh EXCEPT !.frameOut = Tail(@)]
    /\ lastOp' = Op("emit", 0)
    /\ UNCHANGED << other, setArg, edited, lastList, themeVars >>

\* the preview document has run to its end and the frame shows the result
FrameRender ==
    /\ widget.frameView = "loading"
    /\ widget.frameOut = <<>>
    /\ widget' = [Fresh EXCEPT !.frameView = DocView(widget.previewSrc)]
    /\ lastOp' = Op("render", 0)
    /\ UNCHANGED << other, queue, setArg, edited, emitted, lastList, themeVars >>

\* the message listener of one instance
onMessage(w, data) ==
    IF data.type = "console"
    THEN addConsoleMessage(w, data.method, data.args)
    ELSE w

\* an instance takes part in the dispatch if it registered a listener
dispatch(w, data) ==
    IF w.listening THEN onMessage(w, data) ELSE w

\* the page handles the oldest posted message: every listener registered on
\* the window is called with it
Deliver ==
    /\ queue # <<>>
    /\ widget' = dispatch(Fresh, Head(queue).data)
    /\ other' = dispatch([other EXCEPT !.threw = FALSE], Head(queue).data)
    /\ queue' = Tail(queue)
    /\ lastOp' = Op("message", 0)
    /\ UNCHANGED << setArg, edited, emitted, lastList, themeVars >>

\* data of messages that windows other than the preview post to the page
ForeignData ==
    { LogMsg,
      [type |-> "other", method |-> "log", args |-> Arr(<<"x">>)],
      [type |-> "undefined", method |-> "log", args |-> Arr(<<"x">>)],
      [type |-> "console", method |-> "debug", args |-> Arr(<<"x">>)],
      [type |-> "console", method |-> "undefined", args |-> Arr(<<"x">>)],
      [type |-> "console", method |-> "log", args |-> NotArr("undefined")],
      [type |-> "console", method |-> "log", args |-> NotArr("string")] }

\* some other window (an embedded frame, an extension) posts to the page
ForeignPost(data) ==
    /\ Len(queue) < MaxQueue
    /\ Len(widget.consoleMessages) < MaxLog
    /\ queue' = Append(queue, Event("foreign", data))
    /\ widget' = Fresh
    /\ lastOp' = Op("post", 0)
    /\ UNCHANGED << other, setArg, edited, emitted, lastList, themeVars >>

Destroy ==
    /\ widget.structure = "built"
    /\ widget' = destroy(Fresh)
    /\ lastOp' = Op("destroy", 0)
    /\ UNCHANGED << other, queue, setArg, edited, emitted, lastList, themeVars >>

\* the reader types in the second instance's editor
OtherEdit(t) ==
    /\ other.structure = "built"
    /\ editorSetValue(t) # other.buffer
    /\ other' = [other EXCEPT !.buffer = editorSetValue(t), !.ran = FALSE, !.threw = FALSE]
    /\ widget' = Fresh
    /\ lastOp' = Op("otherEdit", 0)
    /\ UNCHANGED << queue, setArg, edited, emitted, lastList, themeVars >>

\* the run button of the second instance
OtherRunCode ==
    /\ other.structure = "built"
    /\ other' = runCode([other EXCEPT !.ran = FALSE, !.threw = FALSE])
    /\ widget' = Fresh
    /\ lastOp' = Op("otherRun", 0)
    /\ UNCHANGED << queue, setArg, edited, emitted, lastList, themeVars >>

\* the second instance's preview document makes its next console call
OtherFrameEmit ==
    /\ other.frameOut # <<>>
    /\ Len(queue) < MaxQueue
    /\ queue' = Append(queue, Event("B", Head(other.frameOut)))
    /\ other' = [other EXCEPT !.frameOut = Tail(@), !.ran = FALSE, !.threw = FALSE]
    /\ widget' = Fresh
    /\ lastOp' = Op("otherEmit", 0)
    /\ UNCHANGED << setArg, edited, emitted, lastList, themeVars >>

CopyCode ==
    /\ widget.copyPending + Len(widget.copyTimers) < MaxCopies
    /\ widget' = copyCode(Fresh)
    /\ lastOp' = Op("copyCode", 0)
    /\ UNCHANGED << other, queue, setArg, edited, emitted, lastList, themeVars >>

ClipboardResolve ==
    /\ widget.copyPending > 0
    /\ widget' = copyResolved(Fresh)
    /\ lastOp' = Op("copied", 0)
    /\ UNCHANGED << other, queue, setArg, edited, emitted, lastList, themeVars >>

ClipboardReject ==
    /\ widget.copyPending > 0
    /\ widget' = copyRejected(Fresh)
    /\ lastOp' = Op("copyFailed", 0)
    /\ UNCHANGED << other, queue, setArg, edited, emitted, lastList, themeVars >>

CopyTimeout ==
    /\ widget.copyTimers # <<>>
    /\ widget' = copyTimeout(Fresh)
    /\ lastOp' = Op("timeout", 0)
    /\ UNCHANGED << other, queue, setArg, edited, emitted, lastList, themeVars >>

PageLoad ==
    /\ ~loaded
    /\ loaded' = TRUE
    /\ icon' = IF hasToggle THEN initialIcon(Theme).icon ELSE icon
    /\ UNCHANGED << dataTheme, storedTheme, hasToggle, clicks, before, widgetVars >>

\* the reader opens another page of the course: a new document runs theme.js
\* again; localStorage is kept, the markup decides the attribute and the toggle
Navigate ==
    /\ loaded
    /\ dataTheme' \in {"light", "none"}
    /\ hasToggle' \in BOOLEAN
    /\ icon' = HtmlIcon
    /\ loaded' = FALSE
    /\ before' = <<>>
    /\ UNCHANGED << storedTheme, clicks, widgetVars >>

\* the reader reloads or opens another page of the course, whose markup
\* applies the persisted choice before theme.js runs
Reload ==
    /\ loaded
    /\ dataTheme' = appliedTheme(storedTheme)
    /\ hasToggle' \in BOOLEAN
    /\ icon' = HtmlIcon
    /\ loaded' = FALSE
    /\ before' = <<>>
    /\ UNCHANGED << storedTheme, clicks, widgetVars >>

\* the reader clears the site's data while the page is open
ClearStorage ==
    /\ loaded
    /\ storedTheme # "unset"
    /\ storedTheme' = "unset"
    /\ UNCHANGED << dataTheme, icon, hasToggle, loaded, clicks, before, widgetVars >>

ToggleClick ==
    /\ loaded
    /\ hasToggle
    /\ clicks < MaxClicks
    /\ dataTheme' = toggleTheme(Theme).dataTheme
    /\ storedTheme' = toggleTheme(Theme).storedTheme
    /\ icon' = toggleTheme(Theme).icon
    /\ clicks' = clicks + 1
    /\ before' = IF Len(before) < 2 THEN Append(before, Theme)
                 ELSE << before[2], Theme >>
    /\ UNCHANGED << hasToggle, loaded, widgetVars >>

(* ---------------------------- specifications --------------------------- *)

WidgetInit ==
    /\ \E o \in Options :
        /\ widget = init(o)
        /\ setArg = IF widget.ran THEN [set |-> TRUE, text |-> o.initialCode]
                    ELSE NoText
    /\ other = NoWidget
    /\ queue = <<>>
    /\ lastOp = [op |-> "construct", index |-> 0, hadLog |-> FALSE]
    /\ edited = FALSE
    /\ emitted = <<>>
    /\ lastList = NoList

ThemeInit ==
    /\ dataTheme \in {"light", "none"}
    /\ storedTheme \in {"light", "dark", "unset"}
    /\ hasToggle \in BOOLEAN
    /\ icon = HtmlIcon
    /\ loaded = FALSE
    /\ clicks = 0
    /\ before = <<>>

\* one widget on a page whose theme is left alone
Init ==
    /\ WidgetInit
    /\ dataTheme = "none"
    /\ storedTheme = "unset"
    /\ hasToggle = TRUE
    /\ icon = HtmlIcon
    /\ loaded = TRUE
    /\ clicks = 0
    /\ before = <<>>

\* the widget, its preview frame and the console relay
Next ==
    \/ \E t \in CodeTexts : SetCode(t)
    \/ \E t \in CodeTexts : Edit(t)
    \/ RunCode
    \/ ResetCode
    \/ ClearConsole
    \/ FrameEmit
    \/ FrameRender
    \/ Deliver

Spec == Init /\ [][Next]_vars

\* the widget's operations with the example switcher; the preview documents
\* are loaded but not scheduled, so no message is posted
NextExamples ==
    \/ \E t \in CodeTexts : SetCode(t)
    \/ \E t \in CodeTexts : Edit(t)
    \/ RunCode
    \/ ResetCode
    \/ ClearConsole
    \/ \E list \in ExampleLists : SetExamples(list)
    \/ \E index \in Indices : LoadExample(index)

SpecExamples == Init /\ [][NextExamples]_vars

\* construction on a container that may be missing, messages of any shape
\* from other windows, and destroy
InitRelay ==
    /\ \E found \in BOOLEAN, o \in Options :
        /\ widget = constructor(found, o)
        /\ setArg = IF widget.ran THEN [set |-> TRUE, text |-> o.initialCode]
                    ELSE NoText
    /\ other = NoWidget
    /\ queue = <<>>
    /\ lastOp = [op |-> "construct", index |-> 0, hadLog |-> FALSE]
    /\ edited = FALSE
    /\ emitted = <<>>
    /\ lastList = NoList
    /\ dataTheme = "none"
    /\ storedTheme = "unset"
    /\ hasToggle = TRUE
    /\ icon = HtmlIcon
    /\ loaded = TRUE
    /\ clicks = 0
    /\ before = <<>>

NextRelay ==
    \/ widget.structure = "built" /\ RunCode
    \/ widget.structure = "built" /\ ClearConsole
    \/ FrameEmit
    \/ FrameRender
    \/ Deliver
    \/ \E data \in ForeignData : ForeignPost(data)
    \/ Destroy

SpecRelay == InitRelay /\ [][NextRelay]_vars

\* two instances on one page, each with its console shown and its own preview
InitTwo ==
    /\ \E o \in Options :
        /\ o.showConsole
        /\ widget = init(o)
        /\ setArg = IF widget.ran THEN [set |-> TRUE, text |-> o.initialCode]
                    ELSE NoText
    /\ \E o \in Options :
        /\ o.showConsole
        /\ other = init(o)
    /\ queue = <<>>
    /\ lastOp = [op |-> "construct", index |-> 0, hadLog |-> FALSE]
    /\ edited = FALSE
    /\ emitted = <<>>
    /\ lastList = NoList
    /\ dataTheme = "none"
    /\ storedTheme = "unset"
    /\ hasToggle = TRUE
    /\ icon = HtmlIcon
    /\ loaded = TRUE
    /\ clicks = 0
    /\ before = <<>>

\* the previews stop calling console once a log holds MaxLog entries
LogsBelowBound ==
    /\ Len(widget.consoleMessages) < MaxLog
    /\ Len(other.consoleMessages) < MaxLog

NextTwo ==
    \/ \E t \in TwoTexts : Edit(t)
    \/ RunCode
    \/ LogsBelowBound /\ FrameEmit
    \/ \E t \in TwoTexts : OtherEdit(t)
    \/ OtherRunCode
    \/ LogsBelowBound /\ OtherFrameEmit
    \/ Deliver

SpecTwo == InitTwo /\ [][NextTwo]_vars

\* the example switcher with the previews running and their messages
\* delivered
NextTabs ==
    \/ \E t \in CodeTexts : Edit(t)
    \/ \E list \in ExampleLists : SetExamples(list)
    \/ \E index \in Indices : LoadExample(index)
    \/ FrameEmit
    \/ FrameRender
    \/ Deliver

SpecTabs == Init /\ [][NextTabs]_vars

\* the copy button, the clipboard and the confirmation timers
NextCopy ==
    \/ \E t \in CodeTexts : Edit(t)
    \/ CopyCode
    \/ ClipboardResolve
    \/ ClipboardReject
    \/ CopyTimeout

SpecCopy == Init /\ [][NextCopy]_vars

\* a page with the theme toggle and a widget that is left alone
InitTheme ==
    /\ ThemeInit
    /\ widget = init([showConsole |-> TRUE, autoRun |-> FALSE, initialCode |-> <<>>])
    /\ setArg = NoText
    /\ other = NoWidget
    /\ queue = <<>>
    /\ lastOp = [op |-> "construct", index |-> 0, hadLog |-> FALSE]
    /\ edited = FALSE
    /\ emitted = <<>>
    /\ lastList = NoList

NextTheme ==
    \/ PageLoad
    \/ ToggleClick
    \/ Navigate

SpecTheme == InitTheme /\ [][NextTheme]_vars

\* pages whose markup applies the persisted choice to the document
InitThemeLoad ==
    /\ storedTheme \in {"light", "dark", "unset"}
    /\ dataTheme = appliedTheme(storedTheme)
    /\ hasToggle \in BOOLEAN
    /\ icon = HtmlIcon
    /\ loaded = FALSE
    /\ clicks = 0
    /\ before = <<>>
    /\ widget = init([showConsole |-> TRUE, autoRun |-> FALSE, initialCode |-> <<>>])
    /\ setArg = NoText
    /\ other = NoWidget
    /\ queue = <<>>
    /\ lastOp = [op |-> "construct", index |-> 0, hadLog |-> FALSE]
    /\ edited = FALSE
    /\ emitted = <<>>
    /\ lastList = NoList

NextThemeLoad ==
    \/ PageLoad
    \/ ToggleClick
    \/ Reload
    \/ ClearStorage

SpecThemeLoad == InitThemeLoad /\ [][NextThemeLoad]_vars

(* -------------------------------- claims ------------------------------- *)

HasCR(t) == \E i \in 1..Len(t) : t[i] = "\r"

\* t with every line break ("\r\n" or a lone "\r") written as "\n"
RECURSIVE LineBreaksAsLF(_)
LineBreaksAsLF(t) ==
    IF t = <<>> THEN <<>>
    ELSE LET n == Len(t)
             front == LineBreaksAsLF(SubSeq(t, 1, n - 1))
         IN IF t[n] = "\n" /\ n > 1 /\ t[n - 1] = "\r" THEN front
            ELSE Append(front, IF t[n] = "\r" THEN "\n" ELSE t[n])

IsPrefix(a, b) == Len(a) <= Len(b) /\ a = SubSeq(b, 1, Len(a))

Entry(m) == [method |-> m.method, args |-> m.args]

MessageLines(el) == SelectSeq(el, LAMBDA e : e.kind = "console-message")

ActiveTabs(w) == { i \in 1..Len(w.tabs) : w.tabs[i].active }

ErrorCount(msgs) == Cardinality({ i \in 1..Len(msgs) : msgs[i].method = "error" })

\* C1 (as stated): after setCode(t) and before any edit of the buffer,
\* getCode() returns exactly t, for every code text t.
C1_GetCodeReturnsExactlyT ==
    (setArg.set /\ ~edited) => getCode(widget) = setArg.text

\* C1 (amended): after setCode(t) and before any edit, getCode() returns t
\* with every line break written as "\n"; it returns exactly t when t holds
\* no carriage return.
C1_GetCodeReturnsTWithLFBreaks ==
    (setArg.set /\ ~edited) =>
        /\ getCode(widget) = LineBreaksAsLF(setArg.text)
        /\ ~HasCR(setArg.text) => getCode(widget) = setArg.text

C1_Witness ==
    /\ lastOp.op = "setCode"
    /\ setArg.set /\ ~edited
    /\ HasCR(setArg.text)
    /\ getCode(widget) # setArg.text

\* C2: after any sequence of setCode, loadExample and buffer edits,
\* resetCode() makes the buffer hold the text passed to the most recent
\* setCode (the empty text included) and performs a run.  The buffer is
\* compared as the editor holds text, with "\n" line breaks (see C1).
C2_ResetRestoresLastSetCode ==
    (lastOp.op = "resetCode" /\ setArg.set) =>
        /\ getCode(widget) = LineBreaksAsLF(setArg.text)
        /\ widget.ran

\* C3: the message log holds, in order, only messages the preview emitted
\* since the most recent clearConsole or runCode (messages still in flight
\* may be missing from its end).
C3_LogReflectsEmittedSinceClear ==
    IsPrefix(widget.consoleMessages, [i \in 1..Len(emitted) |-> Entry(emitted[i])])

\* C4: runCode() clears the console log and loads into the one preview frame
\* the document generated from the buffer as it is at the call; the frame
\* then holds that document only, and the buffer and the remembered original
\* text are unchanged.
C4_RunCodeLoadsBuffer ==
    [][lastOp'.op = "runCode" =>
            /\ widget'.consoleMessages = <<>>
            /\ MessageLines(widget'.consoleMessagesEl) = <<>>
            /\ UserCode(widget'.previewSrc) = widget.buffer
            /\ widget'.previewSrc = HtmlHead \o widget.buffer \o HtmlTail
            /\ widget'.frameOut = DocMessages(widget'.previewSrc)
            /\ widget'.frameView = "loading"
            /\ widget'.buffer = widget.buffer
            /\ widget'.originalCode = widget.originalCode]_vars

C4_Witness ==
    /\ lastOp.op = "runCode"
    /\ lastOp.hadLog
    /\ widget.buffer # widget.originalCode
    /\ UserCode(widget.previewSrc) = widget.buffer
    /\ widget.consoleMessages = <<>>

\* C5: clearConsole() leaves the message log empty and the panel without
\* any message line, whatever the log held and whether or not the console
\* panel is shown.
C5_ClearConsoleEmptiesLog ==
    lastOp.op = "clearConsole" =>
        /\ widget.consoleMessages = <<>>
        /\ MessageLines(widget.consoleMessagesEl) = <<>>

C5_Witness ==
    /\ lastOp.op = "clearConsole"
    /\ lastOp.hadLog
    /\ widget.consoleMessages = <<>>

\* C6: after clearConsole() (called directly or as the first step of
\* runCode) on a widget whose console is shown, the panel contains the
\* placeholder entry, as it does right after construction.
C6_ClearShowsPlaceholder ==
    (lastOp.op \in {"clearConsole", "runCode"} /\ widget.showConsole) =>
        widget.consoleMessagesEl = <<Placeholder>>

\* C7 (as stated): selecting example i, a position of the current list,
\* makes the buffer and the remembered original text equal to example i's
\* code, performs a run and leaves tab i the only active tab.
C7_LoadExampleLoadsExactCode ==
    (lastOp.op = "loadExample" /\ HasExample(widget, lastOp.index)) =>
        /\ widget.buffer = widget.examples.list[lastOp.index + 1].code
        /\ widget.originalCode = widget.examples.list[lastOp.index + 1].code
        /\ widget.ran
        /\ ActiveTabs(widget) = {lastOp.index + 1}

\* C7 (amended): selecting example i, a position of the current list, makes
\* the remembered original text equal to example i's code and the buffer
\* equal to that code with its line breaks written as "\n", performs a run
\* of that buffer and leaves tab i the only active tab.
C7_LoadExampleLoadsCode ==
    (lastOp.op = "loadExample" /\ HasExample(widget, lastOp.index)) =>
        /\ widget.buffer = LineBreaksAsLF(widget.examples.list[lastOp.index + 1].code)
        /\ widget.originalCode = widget.examples.list[lastOp.index + 1].code
        /\ widget.ran
        /\ UserCode(widget.previewSrc) = widget.buffer
        /\ ActiveTabs(widget) = {lastOp.index + 1}

C7_Witness ==
    /\ lastOp.op = "loadExample"
    /\ lastOp.index = 1
    /\ Len(widget.examples.list) = 2
    /\ widget.tabs[2].active /\ ~widget.tabs[1].active
    /\ widget.originalCode = widget.examples.list[2].code
    /\ widget.ran

\* C8: after any sequence of setExamples calls the tab strip and the example
\* list are those of the most recent call: the strip is visible exactly
\* when that list is non-empty, it holds one tab per entry in order, and the
\* selectable examples are the entries of that list (none when it is empty).
C8_TabsFollowLastSetExamples ==
    lastList.set =>
        /\ (widget.tabsDisplay = "flex") <=> (lastList.list # <<>>)
        /\ Len(widget.tabs) = Len(lastList.list)
        /\ \A i \in 1..Len(widget.tabs) : widget.tabs[i].name = lastList.list[i].name
        /\ \A index \in Indices :
              HasExample(widget, index) <=> index + 1 \in 1..Len(lastList.list)
        /\ widget.examples.list = lastList.list

C10_ThrowingCodeShowsFallback ==
    (/\ widget.frameView \notin {"empty", "loading"}
     /\ Throws(UserCode(widget.previewSrc))) =>
        /\ widget.frameView = "fallback"
        /\ ErrorCount(DocMessages(widget.previewSrc)) = 1

\* the console-forward shape of spec section 6
WellFormed(data) ==
    /\ data.type = "console"
    /\ data.method \in {"log", "error", "warn", "info"}
    /\ data.args.kind = "array"

\* C11: a message that does not have the console-forward shape is ignored:
\* handling it leaves the message log and the panel unchanged and raises no
\* error in the listener.
C11_MalformedMessageIgnored ==
    [][(lastOp'.op = "message" /\ ~WellFormed(Head(queue).data)) =>
            /\ widget'.consoleMessages = widget.consoleMessages
            /\ widget'.consoleMessagesEl = widget.consoleMessagesEl
            /\ ~widget'.threw]_vars

\* C12: a widget constructed on a container id that matches no element has
\* logged an error and done nothing else, and nothing happens to it later:
\* no structure, no editor content, no listener, no run, no exception.
C12_MissingContainerAborts ==
    widget.container = "missing" =>
        /\ widget.errorLogged
        /\ widget.structure = "none"
        /\ ~widget.listening
        /\ ~widget.ran /\ ~widget.threw
        /\ widget.previewSrc = <<>> /\ widget.frameOut = <<>>
        /\ widget.buffer = <<>> /\ widget.originalCode = <<>>
        /\ widget.consoleMessages = <<>> /\ widget.consoleMessagesEl = <<>>

C12_Witness ==
    /\ widget.container = "missing"
    /\ widget.errorLogged
    /\ lastOp.op = "message"
    /\ ~widget.listening
    /\ widget.consoleMessages = <<>>

\* C13: the copy confirmation is transient: whenever no clipboard write and
\* no confirmation timer is pending, the copy button shows the label it had
\* before the first copy; and copyCode and its callbacks never change the
\* buffer.
C13_CopyConfirmationTransient ==
    /\ [](widget.copyPending = 0 /\ widget.copyTimers = <<>>
            => widget.copyBtn = CopyLabel)
    /\ [][lastOp'.op \in {"copyCode", "copied", "copyFailed", "timeout"}
            => widget'.buffer = widget.buffer]_vars

\* C14: with two instances on one page, a console message posted by the
\* preview frame of one instance is never appended to the message log of the
\* other instance.
C14_LogsAreSeparate ==
    [][lastOp'.op = "message" =>
          /\ Head(queue).source = "A" => other'.consoleMessages = other.consoleMessages
          /\ Head(queue).source = "B" => widget'.consoleMessages = widget.consoleMessages]_vars

C16_ClickMakesThemeAgree ==
    [][clicks' = clicks + 1 =>
          /\ \/ dataTheme' = "light" /\ storedTheme' = "light" /\ icon' = "sun"
             \/ dataTheme' = "none" /\ storedTheme' = "dark" /\ icon' = "moon"
          /\ (dataTheme' = "light") # (dataTheme = "light")]_vars

C16_Witness ==
    /\ Len(before) = 1
    /\ before[1].dataTheme = "light" /\ before[1].storedTheme = "unset"
    /\ before[1].icon = "sun"
    /\ dataTheme = "none" /\ storedTheme = "dark" /\ icon = "moon"

\* the items with one space between neighbours
SpaceJoined(items) ==
    [ i \in 1..(IF items = <<>> THEN 0 ELSE 2 * Len(items) - 1) |->
        IF i % 2 = 1 THEN items[(i + 1) \div 2] ELSE " " ]

\* the panel's message lines are the log's entries, in order
PanelShowsLog(w) ==
    LET lines == MessageLines(w.consoleMessagesEl)
        log == w.consoleMessages
    IN  /\ Len(lines) = Len(log)
        /\ \A i \in 1..Len(log) :
              /\ lines[i].method = log[i].method
              /\ log[i].args.kind = "array"
              /\ lines[i].text = SpaceJoined(log[i].args.items)

\* C17: in every reachable state the message log and the panel agree: with
\* the console shown, the panel's message lines are, in order, one per log
\* entry with the entry's kind and its args joined by single spaces; without
\* it the log is empty; and every step leaves the log alone, resets it to
\* empty, or appends the message being delivered at its end.
C17_LogAndPanelAgree ==
    /\ [](IF widget.showConsole THEN PanelShowsLog(widget)
          ELSE widget.consoleMessages = <<>>)
    /\ [][\/ widget'.consoleMessages = widget.consoleMessages
          \/ widget'.consoleMessages = <<>>
          \/ /\ lastOp'.op = "message"
             /\ widget'.consoleMessages =
                  Append(widget.consoleMessages, Entry(Head(queue).data))]_vars

C17_Witness ==
    /\ widget.showConsole
    /\ lastOp.op = "message"
    /\ Len(widget.consoleMessages) = 2
    /\ widget.consoleMessages[1] = Entry(LogMsg)
    /\ MessageLines(widget.consoleMessagesEl)[1].text = <<"x", " ", "y">>

\* C18: after destroy() the widget no longer reacts to events: a console
\* message delivered after destroy does not change the message log, and the
\* container stays empty.
C18_DestroyedWidgetIgnoresMessages ==
    [][(widget.structure = "cleared" /\ lastOp'.op = "message") =>
          /\ widget'.consoleMessages = widget.consoleMessages
          /\ widget'.structure = "cleared"]_vars

\* C19: whenever the tab strip is visible exactly one tab is marked active;
\* and loadExample with an index that is not a position of the current list
\* changes nothing (tabs, buffer, remembered original text, message log,
\* panel, preview document and every other field of the widget, and the
\* messages in flight) and performs no run.
C19_OneActiveTabAndBadIndexInert ==
    /\ [](widget.tabsDisplay = "flex" => Cardinality(ActiveTabs(widget)) = 1)
    /\ [][(lastOp'.op = "loadExample" /\ ~HasExample(widget, lastOp'.index)) =>
            /\ [widget' EXCEPT !.ran = widget.ran, !.threw = widget.threw] = widget
            /\ ~widget'.ran
            /\ queue' = queue]_vars

C19_Witness ==
    /\ lastOp.op = "loadExample"
    /\ ~HasExample(widget, lastOp.index)
    /\ widget.tabsDisplay = "flex"
    /\ Len(widget.tabs) = 2
    /\ ActiveTabs(widget) = {2}
    /\ widget.consoleMessages # <<>>
    /\ ~widget.ran

====
